---------------------------- MODULE Spec2Model ----------------------------
(***************************************************************************)
(* A model of aCOSMIC/sample.py: the independent samplers of class Sample  *)
(* and the Moe & Di Stefano grid sampler of class MultiDimSample.          *)
(*                                                                         *)
(* Real numbers are exact rationals <<n, d>> (d > 0, lowest terms), so     *)
(* the properties are those of the algorithm in exact arithmetic.          *)
(*                                                                         *)
(* The file as shipped does not import: names are misspelt (num1M1 for     *)
(* numM1, logP for logPv, numpy/scipy for np, xrange), populate_pdfs and   *)
(* idl_tabulate are called without their class, `.flatten` lacks its       *)
(* call, and lines 621-666 are indented by one column too many.  The model *)
(* reads every statement with each name resolved to the definition in the  *)
(* file it evidently refers to.  It adds no statement: a variable the file *)
(* never assigns (total_mass) stays unbound.                               *)
(***************************************************************************)
EXTENDS Integers, Sequences, FiniteSets, TLC

VARIABLES
    pc,        \* position in the running call
    \* ---- idl_tabulate(x, f, p)
    x, f, p, idx, ret,
    \* ---- Sample.* (selector samplers, binary_select)
    fn, model, kstar1_final, size, result, primary_mass, binary_choose,
    \* ---- populate_pdfs(): the analytic fits it evaluates and its three tensors
    fit, flogP_sq, probbin, cumqdist, cumedist, cumPbindist,
    \* ---- MultiDimSample.initial_sample(M1min, size)
    M1min, fM1, cumfM1, cumf_M1min, trial,
    myM1, indM1, mycumPbindist, mybinfrac, myrand, mylogP, indlogP,
    mye, mycumqdist, myq,
    primary_mass_list, secondary_mass_list, porb_list, ecc_list, total_mass,
    trials     \* history: the primary and secondary mass of every trial so far

tabVars == <<x, f, p, idx, ret>>
sampleVars == <<fn, model, kstar1_final, size, result, primary_mass, binary_choose>>
pdfVars == <<fit, flogP_sq, probbin, cumqdist, cumedist, cumPbindist>>
massVars == <<M1min, fM1, cumfM1, cumf_M1min>>
trialVars == <<myM1, indM1, mycumPbindist, mybinfrac, myrand, mylogP, indlogP,
               mye, mycumqdist, myq>>
outVars == <<primary_mass_list, secondary_mass_list, porb_list, ecc_list,
             total_mass, trials>>
multiVars == <<massVars, trial, trialVars, outVars>>
vars == <<pc, tabVars, sampleVars, pdfVars, multiVars>>

Idle == "-"

(***************************************************************************)
(* Exact rational arithmetic.                                              *)
(***************************************************************************)
Abs(a) == IF a < 0 THEN -a ELSE a

RECURSIVE GCD(_, _)
GCD(a, b) == IF b = 0 THEN a ELSE GCD(b, a % b)

Norm(n, d) ==
    LET g == GCD(Abs(n), Abs(d))
        s == IF d < 0 THEN -1 ELSE 1
    IN  <<s * (n \div g), s * (d \div g)>>

R(n) == <<n, 1>>
\* sums and comparisons over the least common denominator, products with the
\* cross factors cancelled first, so that intermediate values stay small
RAdd(a, b) ==
    LET g == GCD(a[2], b[2])
    IN  Norm(a[1] * (b[2] \div g) + b[1] * (a[2] \div g), (a[2] \div g) * b[2])
RNeg(a) == <<-a[1], a[2]>>
RSub(a, b) == RAdd(a, RNeg(b))
RMul(a, b) ==
    LET g1 == GCD(Abs(a[1]), b[2])
        g2 == GCD(Abs(b[1]), a[2])
    IN  Norm((a[1] \div g1) * (b[1] \div g2), (a[2] \div g2) * (b[2] \div g1))
RInv(a) == IF a[1] < 0 THEN <<-a[2], -a[1]>> ELSE <<a[2], a[1]>>
RDiv(a, b) == RMul(a, RInv(b))
RLe(a, b) ==
    LET g == GCD(a[2], b[2])
    IN  a[1] * (b[2] \div g) <= b[1] * (a[2] \div g)
RLt(a, b) == ~RLe(b, a)
RAbs(a) == <<Abs(a[1]), a[2]>>

RECURSIVE RSum(_)
RSum(s) == IF s = <<>> THEN R(0) ELSE RAdd(s[1], RSum(Tail(s)))

RECURSIVE RPow(_, _)
RPow(a, k) == IF k = 0 THEN R(1) ELSE RMul(a, RPow(a, k - 1))

\* the sequence s with every element evaluated
Tup(s) == SubSeq(s, 1, Len(s))

\* the python slice s[lo:hi] (0-based, hi exclusive, clipped to the sequence)
Slice(s, lo, hi) ==
    LET h == IF hi > Len(s) THEN Len(s) ELSE hi
    IN  IF lo >= h THEN <<>> ELSE SubSeq(s, lo + 1, h)

(***************************************************************************)
(* scipy.integrate.newton_cotes(rn)[0]: the weights of the interpolatory   *)
(* quadrature over [0, N] with nodes rn, i.e. the integrals of the         *)
(* Lagrange basis polynomials of the nodes.  A polynomial is the sequence  *)
(* of its coefficients, lowest degree first.                               *)
(***************************************************************************)
PolyMulLinear(q, a) ==          \* q(t) * (t - a)
    Tup([k \in 1..(Len(q) + 1) |->
        RSub(IF k > 1 THEN q[k - 1] ELSE R(0),
             IF k <= Len(q) THEN RMul(a, q[k]) ELSE R(0))])

RECURSIVE LagrangeNumerator(_, _, _)
LagrangeNumerator(rn, i, j) ==  \* product over j' <= j, j' # i of (t - rn[j'])
    IF j = 0 THEN <<R(1)>>
    ELSE IF j = i THEN LagrangeNumerator(rn, i, j - 1)
    ELSE PolyMulLinear(LagrangeNumerator(rn, i, j - 1), rn[j])

RECURSIVE LagrangeDenominator(_, _, _)
LagrangeDenominator(rn, i, j) ==
    IF j = 0 THEN R(1)
    ELSE IF j = i THEN LagrangeDenominator(rn, i, j - 1)
    ELSE RMul(LagrangeDenominator(rn, i, j - 1), RSub(rn[i], rn[j]))

PolyIntegral(q, N) ==           \* integral of q over [0, N]
    RSum([k \in 1..Len(q) |-> RDiv(RMul(q[k], RPow(R(N), k)), R(k))])

\* the general case: the weights solve the moment equations of the nodes
InterpolatoryWeights(rn) ==
    LET N == Len(rn) - 1
    IN  Tup([i \in 1..Len(rn) |->
            RDiv(PolyIntegral(LagrangeNumerator(rn, i, Len(rn)), N),
                 LagrangeDenominator(rn, i, Len(rn)))])

\* equally spaced nodes take the tabulated closed Newton-Cotes coefficients
\* (trapezoid, Simpson, 3/8, Boole)
EquallySpaced(rn) == \A i \in 1..(Len(rn) - 1) : RSub(rn[i + 1], rn[i]) = R(1)

BuiltinWeights(N) ==
    CASE N = 1 -> <<<<1, 2>>, <<1, 2>>>>
      [] N = 2 -> <<<<1, 3>>, <<4, 3>>, <<1, 3>>>>
      [] N = 3 -> <<<<3, 8>>, <<9, 8>>, <<9, 8>>, <<3, 8>>>>
      [] N = 4 -> <<<<14, 45>>, <<64, 45>>, <<8, 15>>, <<64, 45>>, <<14, 45>>>>

newton_cotes_weights(rn) ==
    IF EquallySpaced(rn) /\ Len(rn) - 1 \in 1..4
      THEN BuiltinWeights(Len(rn) - 1)
      ELSE InterpolatoryWeights(rn)

Dot(w, g) == RSum(Tup([i \in 1..Len(w) |-> RMul(w[i], g[i])]))

\* the inner function of idl_tabulate, lines 269-274
newton_cotes(xs, fs) ==
    IF Len(xs) < 2 THEN R(0)
    ELSE LET n    == Len(xs)
             span == RSub(xs[n], xs[1])
             rn   == Tup([i \in 1..n |-> RDiv(RMul(R(n - 1), RSub(xs[i], xs[1])), span)])
         IN  RMul(RDiv(span, R(n - 1)), Dot(newton_cotes_weights(rn), fs))

\* the stride of the window loop, line 276: range(0, n, p - 1)
StrideOffByOne(q) == q
Stride(q) == q - 1

\* the window of one iteration, line 277: x[idx:idx + p]
Window(s, at, q) == Slice(s, at, at + q)

\* the variables of class Sample's calls, while another call runs
SampleIdle ==
    /\ fn = Idle /\ model = Idle /\ kstar1_final = 0 /\ size = 0
    /\ result = [ret |-> Idle] /\ primary_mass = <<>> /\ binary_choose = <<>>

TabIdle == x = <<>> /\ f = <<>> /\ p = 0 /\ idx = 0 /\ ret = R(0)

PdfIdle ==
    /\ fit = <<>> /\ flogP_sq = <<>> /\ probbin = <<>>
    /\ cumqdist = <<>> /\ cumedist = <<>> /\ cumPbindist = <<>>

\* a local that no statement has assigned yet
None == <<>>

TrialBlank ==
    /\ myM1 = None /\ indM1 = None /\ mycumPbindist = None /\ mybinfrac = None
    /\ myrand = None /\ mylogP = None /\ indlogP = None
    /\ mye = None /\ mycumqdist = None /\ myq = None

MultiIdle ==
    /\ M1min = None /\ fM1 = None /\ cumfM1 = None /\ cumf_M1min = None
    /\ trial = 0 /\ TrialBlank
    /\ primary_mass_list = <<>> /\ secondary_mass_list = <<>>
    /\ porb_list = <<>> /\ ecc_list = <<>> /\ total_mass = None /\ trials = <<>>

(***************************************************************************)
(* idl_tabulate as a loop: one TabStep per iteration of line 276-277.      *)
(***************************************************************************)
MaxN == 5      \* longest grid handed to idl_tabulate
MaxX == 5      \* abscissas are integers 0..MaxX
MaxK == 2      \* integrand scale
MaxP == 5      \* largest window size (the default p)

Increasing(s) == \A a \in 1..(Len(s) - 1) : s[a] < s[a + 1]

TabGrids ==
    UNION {{s \in [1..n -> 0..MaxX] : Increasing(s)} : n \in 1..MaxN}

TabInit ==
    /\ pc = "tab_loop"
    /\ \E s \in TabGrids, k \in 0..MaxK, shape \in {"const", "linear"} :
          /\ x = [a \in 1..Len(s) |-> R(s[a])]
          /\ f = [a \in 1..Len(s) |-> IF shape = "const" THEN R(k) ELSE R(k * s[a])]
    /\ p \in 1..MaxP
    /\ idx = 0
    /\ ret = R(0)
    /\ SampleIdle /\ PdfIdle /\ MultiIdle

\* line 276 with p = 1: range() refuses a step of 0
TabRaise ==
    /\ pc = "tab_loop"
    /\ Stride(p) = 0
    /\ pc' = "tab_raised"
    /\ UNCHANGED <<tabVars, sampleVars, pdfVars, multiVars>>

TabStep ==
    /\ pc = "tab_loop"
    /\ Stride(p) > 0
    /\ idx < Len(x)
    /\ ret' = RAdd(ret, newton_cotes(Window(x, idx, p), Window(f, idx, p)))
    /\ idx' = idx + Stride(p)
    /\ UNCHANGED <<pc, x, f, p, sampleVars, pdfVars, multiVars>>

TabReturn ==
    /\ pc = "tab_loop"
    /\ Stride(p) > 0
    /\ idx >= Len(x)
    /\ pc' = "tab_done"
    /\ UNCHANGED <<tabVars, sampleVars, pdfVars, multiVars>>

TabNext == TabRaise \/ TabStep \/ TabReturn

SpecTab == TabInit /\ [][TabNext]_vars

IsConstant(s) == \A a \in 1..Len(s) : s[a] = s[1]

\* C9: for a constant integrand k on a strictly increasing grid of n >= 2
\* points, idl_tabulate returns k * (x[n-1] - x[0]) for every window size
\* it returns with (p >= 2).
C9_ConstantIntegral ==
    (pc = "tab_done" /\ Len(x) >= 2 /\ IsConstant(f))
        => ret = RMul(f[1], RSub(x[Len(x)], x[1]))

\* a run with a non-uniform grid, a trailing one-point window and k # 0
C9_Witness ==
    /\ pc = "tab_done"
    /\ IsConstant(f) /\ f[1] # R(0)
    /\ Len(x) = 5 /\ p = 3
    /\ \E a \in 1..3 : RSub(x[a + 1], x[a]) # RSub(x[a + 2], x[a + 1])
(***************************************************************************)
(* Class Sample: the samplers that take a model selector.  Each is one     *)
(* action: the call with its arguments is drawn in SampleInit, the action  *)
(* runs the body to its return.  result.ret is "value" (an array was       *)
(* returned), "None" (the body fell off its end) or "raise".               *)
(***************************************************************************)
UDen == 4       \* uniform draws are the multiples of 1/UDen in [0, 1)
MaxLen == 2     \* longest primary_mass array handed to binary_select
MaxSize == 2    \* largest requested sample size

Uniform01 == {Norm(k, UDen) : k \in 0..(UDen - 1)}

\* np.log10 on the masses of the model, which are powers of ten
MassExponents == -2..2
Pow10(e) == IF e >= 0 THEN R(10^e) ELSE <<1, 10^(-e)>>
Log10(m) == CHOOSE e \in MassExponents : Pow10(e) = m

Selectors ==
    {"kroupa93", "salpeter55", "vanHaaften", "Han", "log_normal",
     "thermal", "uniform", "const", "burst", "unknown"}

Samplers ==
    {"sample_primary", "binary_select", "sample_porb", "sample_ecc", "sample_SFH"}

\* the remnant-type codes around the thresholds 12, 13, 14 of sample_primary
KstarFinals == 12..15

\* np.where(b)[0]: the ascending indices at which b holds
RECURSIVE WhereUpTo(_, _)
WhereUpTo(b, n) ==
    IF n = 0 THEN <<>>
    ELSE WhereUpTo(b, n - 1) \o (IF b[n] THEN <<n>> ELSE <<>>)
Where(b) == WhereUpTo(b, Len(b))

\* s[ix] for an index array ix
Take(s, ix) == Tup([a \in 1..Len(ix) |-> s[ix[a]]])

SeqsUpTo(S, n) == UNION {[1..m -> S] : m \in 0..n}

SampleInit ==
    /\ pc = "call"
    /\ fn \in Samplers
    /\ model \in Selectors
    /\ IF fn = "sample_primary"
         THEN kstar1_final \in KstarFinals /\ size \in 1..MaxSize
         ELSE kstar1_final = 0 /\ size = 0
    /\ IF fn = "binary_select"
         THEN primary_mass \in SeqsUpTo({Pow10(e) : e \in MassExponents}, MaxLen)
         ELSE primary_mass = <<>>
    /\ binary_choose = <<>>
    /\ result = [ret |-> Idle]
    /\ TabIdle /\ PdfIdle /\ MultiIdle

\* lines 67-72: how many values the kroupa93 branch draws
Oversample(k, n) ==
    IF k > 14 THEN n * 500 ELSE IF k > 12 THEN n * 50 ELSE n

\* lines 86-89, 107-110: the mass floor of the post-filter (0: unfiltered)
MassFloorUnfiltered(k) == 0
MassFloor(k) == IF k > 13 THEN 15 ELSE IF k > 12 THEN 8 ELSE 0

\* lines 96-101: the count the salpeter55 branch asks np.random.power for
OversampleSalpeter(k, n) ==
    IF k > 14 THEN n * 500 ELSE IF k > 12 THEN n * 50 ELSE n * 500

\* The masses of lines 74-83 are positive numbers between 0.1 and 100 Msun.
\* An array of n draws is taken as at most two runs of equal masses,
\* <<[mass, count], ...>>, over masses on both sides of the floors 8 and 15.
SampledMasses == {1, 8, 9, 15, 16}

Runs(v1, m, v2, n) ==
    (IF m > 0 THEN <<[mass |-> v1, count |-> m]>> ELSE <<>>)
        \o (IF n - m > 0 THEN <<[mass |-> v2, count |-> n - m]>> ELSE <<>>)

SampledArrays(n) ==
    {Runs(v1, m, v2, n) : v1 \in SampledMasses, v2 \in SampledMasses, m \in {0, 1, n}}

\* np.sum(a_0), lines 84, 105
RECURSIVE SumOf(_)
SumOf(a) ==
    IF a = <<>> THEN 0
    ELSE a[1].mass * a[1].count + SumOf(Tail(a))

\* a_0[a_0 > floor], lines 85-88: the strict comparison keeps no mass at the floor
RECURSIVE Above(_, _)
Above(a, floor) ==
    IF a = <<>> THEN <<>>
    ELSE (IF a[1].mass > floor THEN <<a[1]>> ELSE <<>>) \o Above(Tail(a), floor)

sample_primary ==
    /\ pc = "call" /\ fn = "sample_primary"
    /\ \/ /\ model = "kroupa93"
          /\ \E a_0 \in SampledArrays(Oversample(kstar1_final, size)) :
                result' = [ret |-> "value",
                           drawn |-> Oversample(kstar1_final, size),
                           floor |-> MassFloor(kstar1_final),
                           a_0 |-> IF kstar1_final > 12
                                     THEN Above(a_0, MassFloor(kstar1_final))
                                     ELSE a_0,
                           total_sampled_mass |-> SumOf(a_0),
                           sampled |-> a_0]       \* history: a_0 before line 85
       \* np.random.power(-1.3, ...) rejects a shape parameter a <= 0
       \/ /\ model = "salpeter55"
          /\ result' = [ret |-> "raise", error |-> "ValueError",
                        requested |-> OversampleSalpeter(kstar1_final, size)]
       \/ /\ model \notin {"kroupa93", "salpeter55"}
          /\ result' = [ret |-> "None"]
    /\ pc' = "returned"
    /\ UNCHANGED <<tabVars, pdfVars, multiVars, fn, model, kstar1_final, size, primary_mass, binary_choose>>

\* line 133
binary_fraction(m) == RAdd(<<1, 2>>, RMul(<<1, 4>>, R(Log10(m))))

binary_select ==
    /\ pc = "call" /\ fn = "binary_select"
    /\ IF model = "vanHaaften"
         THEN /\ binary_choose' \in [1..Len(primary_mass) -> Uniform01]
              /\ LET n == Len(primary_mass)
                     binaryIdx == Where([a \in 1..n |->
                         RLt(binary_choose'[a], binary_fraction(primary_mass[a]))])
                     singleIdx == Where([a \in 1..n |->
                         RLt(binary_fraction(primary_mass[a]), binary_choose'[a])])
                 IN  result' = [ret |-> "value",
                                binaryIdx |-> binaryIdx, singleIdx |-> singleIdx,
                                binaries |-> Take(primary_mass, binaryIdx),
                                singles |-> Take(primary_mass, singleIdx)]
         ELSE /\ result' = [ret |-> "None"]
              /\ UNCHANGED binary_choose
    /\ pc' = "returned"
    /\ UNCHANGED <<tabVars, pdfVars, multiVars, fn, model, kstar1_final, size, primary_mass>>

sample_porb ==
    /\ pc = "call" /\ fn = "sample_porb"
    /\ \/ model = "Han" /\ result' = [ret |-> "value"]
       \* np.pow exists from NumPy 2.0 on; before, the name lookup raises
       \/ model = "log_normal" /\ result' = [ret |-> "value"]
       \/ model = "log_normal" /\ result' = [ret |-> "raise", error |-> "AttributeError"]
       \/ model \notin {"Han", "log_normal"} /\ result' = [ret |-> "None"]
    /\ pc' = "returned"
    /\ UNCHANGED <<tabVars, pdfVars, multiVars, fn, model, kstar1_final, size, primary_mass, binary_choose>>

sample_ecc ==
    /\ pc = "call" /\ fn = "sample_ecc"
    /\ result' = IF model \in {"thermal", "uniform"}
                   THEN [ret |-> "value"] ELSE [ret |-> "None"]
    /\ pc' = "returned"
    /\ UNCHANGED <<tabVars, pdfVars, multiVars, fn, model, kstar1_final, size, primary_mass, binary_choose>>

sample_SFH ==
    /\ pc = "call" /\ fn = "sample_SFH"
    /\ result' = IF model \in {"const", "burst"}
                   THEN [ret |-> "value"] ELSE [ret |-> "None"]
    /\ pc' = "returned"
    /\ UNCHANGED <<tabVars, pdfVars, multiVars, fn, model, kstar1_final, size, primary_mass, binary_choose>>

SampleNext ==
    sample_primary \/ binary_select \/ sample_porb \/ sample_ecc \/ sample_SFH

SpecSample == SampleInit /\ [][SampleNext]_vars

\* the selectors each sampler's body tests for
Recognized(s) ==
    CASE s = "sample_primary" -> {"kroupa93", "salpeter55"}
      [] s = "binary_select"  -> {"vanHaaften"}
      [] s = "sample_porb"    -> {"Han", "log_normal"}
      [] s = "sample_ecc"     -> {"thermal", "uniform"}
      [] s = "sample_SFH"     -> {"const", "burst"}

\* C1: binary_select puts every input element in exactly one of the two
\* returned arrays, whatever the draws (a draw equal to the binary fraction
\* included), so the two lengths sum to the input length.
C1_ExactPartition ==
    (pc = "returned" /\ fn = "binary_select" /\ model = "vanHaaften")
        => /\ \A a \in 1..Len(primary_mass) :
                  (\E b \in 1..Len(result.binaryIdx) : result.binaryIdx[b] = a)
                      # (\E b \in 1..Len(result.singleIdx) : result.singleIdx[b] = a)
           /\ Len(result.binaries) + Len(result.singles) = Len(primary_mass)

\* C5: a sampler called with a selector outside its recognized set ends with
\* an error; it never returns a no-value result.
C5_UnknownSelectorFails ==
    (pc = "returned" /\ model \notin Recognized(fn)) => result.ret = "raise"
(***************************************************************************)
(* idl_tabulate as a value: the sum the loop of lines 275-278 returns.     *)
(***************************************************************************)
RECURSIVE idl_tabulate_from(_, _, _, _)
idl_tabulate_from(xs, fs, q, at) ==
    IF at >= Len(xs) THEN R(0)
    ELSE RAdd(newton_cotes(Window(xs, at, q), Window(fs, at, q)),
              idl_tabulate_from(xs, fs, q, at + Stride(q)))

idl_tabulate(xs, fs, q) == idl_tabulate_from(xs, fs, q, 0)

DefaultP == 5

(***************************************************************************)
(* populate_pdfs.  The grids keep the end points and the spacing rule of   *)
(* the source (np.linspace) with fewer points, and the mass grid is a      *)
(* geometric one (np.logspace) that starts at 0.8 as the source's does.    *)
(***************************************************************************)
numM1 == 2
numlogP == 3
numq == 4
nume == 4

Linspace(lo, hi, n) ==
    Tup([k \in 1..n |-> RAdd(lo, RDiv(RMul(R(k - 1), RSub(hi, lo)), R(n - 1)))])

\* np.logspace: a geometric grid, here from 0.8 with the ratio 3/2
Logspace(lo, ratio, n) == Tup([k \in 1..n |-> RMul(lo, RPow(ratio, k - 1))])
M1v == Logspace(<<4, 5>>, <<3, 2>>, numM1)
logPv == Linspace(<<3, 20>>, R(8), numlogP)
qv == Linspace(<<1, 10>>, R(1), numq)
ev == Tup([k \in 1..nume |-> RAdd(Linspace(R(0), <<99, 100>>, nume)[k], <<1, 10000>>)])

\* IEEE division: a finite quotient, or nan / inf / -inf when the divisor is 0
NaN == <<0, 0>>
Inf == <<1, 0>>
NegInf == <<-1, 0>>
IsFinite(a) == a[2] # 0
Divide(a, b) ==
    IF b[1] = 0
      THEN (IF a[1] = 0 THEN NaN ELSE IF a[1] > 0 THEN Inf ELSE NegInf)
      ELSE RDiv(a, b)
Times(a, b) == IF IsFinite(a) /\ IsFinite(b) THEN RMul(a, b) ELSE NaN

RMax(s) == CHOOSE m \in {s[k] : k \in 1..Len(s)} : \A k \in 1..Len(s) : RLe(s[k], m)
RMin(s) == CHOOSE m \in {s[k] : k \in 1..Len(s)} : \A k \in 1..Len(s) : RLe(m, s[k])

\* np.cumsum(d) - d[0], lines 459, 506, 550-551
CumOffsetKeepsFirst(d) == Tup([k \in 1..Len(d) |-> RSum(SubSeq(d, 1, k))])
CumOffset(d) == Tup([k \in 1..Len(d) |-> RSub(RSum(SubSeq(d, 1, k)), d[1])])

\* cum / np.max(cum), lines 460, 507: the division is unconditional
NormalizeByMax(cum) == Tup([k \in 1..Len(cum) |-> Divide(cum[k], RMax(cum))])

\* lines 550-554: the period CDF of one mass, scaled to the binary fraction
BinaryFraction(d) == idl_tabulate(logPv, d, DefaultP)
PeriodColumn(d) ==
    LET unit == NormalizeByMax(CumOffset(d))
    IN  Tup([k \in 1..Len(d) |-> Times(unit[k], BinaryFraction(d))])

\* lines 542-547: all companions with log P <= 1.5 are inner binaries; beyond,
\* the fitted probability is clipped at 0
InnerBinaryProbability(j, fitted) ==
    IF RLe(logPv[j], <<3, 2>>) THEN R(1)
    ELSE IF RLe(fitted, R(0)) THEN R(0) ELSE fitted

\* lines 465, 532: flogP * q_factor
CompanionFrequency(cell) == RMul(cell.flogP, idl_tabulate(qv, cell.fq, DefaultP))

\* flogP_sq[:, i] * probbin[:, i] of the arrays fs and pb
InnerBinaryDensity(fs, pb, i) ==
    Tup([j \in 1..numlogP |-> RMul(fs[j][i], pb[j][i])])

(***************************************************************************)
(* The analytic fits of lines 359-458, 468-504 and 515-545 are powers and  *)
(* logarithms of the grid values; the model takes their values at one      *)
(* (period, mass) cell as an input: fq after line 458 (positive at every   *)
(* q), fe after line 504 (positive below e_max, zero from e_max on),       *)
(* flogP (positive) and the fitted inner-binary probability before its     *)
(* clip (at most 1, possibly negative).                                    *)
(***************************************************************************)
\* mass-ratio densities: falling, and flat with or without a twin excess
fq_falling == Tup([k \in 1..numq |-> R(numq + 1 - k)])
fq_twin == Tup([k \in 1..numq |-> IF k = numq THEN R(2) ELSE R(1)])
fq_flat == Tup([k \in 1..numq |-> R(1)])

\* eccentricity densities: no cut-off, a cut-off at the last grid point, a
\* cut-off after the second
fe_flat == Tup([k \in 1..nume |-> R(1)])
fe_cut == Tup([k \in 1..nume |-> R(nume - k)])
fe_steep == Tup([k \in 1..nume |-> IF k <= 2 THEN R(k) ELSE R(0)])

CellFit(n) ==
    CASE n = 1 -> [fq |-> fq_falling, fe |-> fe_flat,
                   flogP |-> <<1, 10>>, probbin |-> <<1, 2>>]
      [] n = 2 -> [fq |-> fq_twin, fe |-> fe_cut,
                   flogP |-> <<1, 10>>, probbin |-> <<3, 4>>]
      [] n = 3 -> [fq |-> fq_twin, fe |-> fe_steep,
                   flogP |-> <<1, 20>>, probbin |-> R(1)]
      [] n = 4 -> [fq |-> fq_flat, fe |-> fe_steep,
                   flogP |-> <<1, 10>>, probbin |-> <<-1, 2>>]

CellFits == {CellFit(n) : n \in 1..4}

\* a density with no support beyond the first grid point
DegenerateFits ==
    {[fq |-> fq_flat, fe |-> Tup([k \in 1..nume |-> IF k = 1 THEN R(1) ELSE R(0)]),
      flogP |-> <<1, 10>>, probbin |-> <<1, 2>>]}

\* At the grid of the source the eccentricity density has several positive
\* entries and the clip of probbin acts only at the longest periods.
Shipped(t) ==
    \A j \in 1..numlogP, i \in 1..numM1 :
        /\ t[j][i] \in CellFits
        /\ RLe(t[j][i].probbin, R(0)) => j = numlogP

\* the tables the grids are built from: for each mass one fit at the shortest
\* period, the first fit at the periods between, one fit at the longest
Columns(short, last) ==
    {[j \in 1..numlogP |->
         [i \in 1..numM1 |->
             IF j = 1 THEN a[i] ELSE IF j = numlogP THEN b[i] ELSE CellFit(1)]] :
       a \in [1..numM1 -> short], b \in [1..numM1 -> last]}

Unclipped == {c \in CellFits : RLt(R(0), c.probbin)}

PdfBlank ==
    /\ flogP_sq = <<>> /\ probbin = <<>>
    /\ cumqdist = <<>> /\ cumedist = <<>> /\ cumPbindist = <<>>

Grid(Cell(_, _)) == Tup([j \in 1..numlogP |-> Tup([i \in 1..numM1 |-> Cell(j, i)])])

populate_pdfs ==
    /\ pc = "populate_pdfs"
    /\ cumqdist' = Grid(LAMBDA j, i : NormalizeByMax(CumOffset(fit[j][i].fq)))
    /\ cumedist' = Grid(LAMBDA j, i : NormalizeByMax(CumOffset(fit[j][i].fe)))
    /\ flogP_sq' = Grid(LAMBDA j, i : CompanionFrequency(fit[j][i]))
    /\ probbin' = Grid(LAMBDA j, i : InnerBinaryProbability(j, fit[j][i].probbin))
    /\ cumPbindist' = Tup([i \in 1..numM1 |->
                          PeriodColumn(InnerBinaryDensity(flogP_sq', probbin', i))])
    /\ pc' = "pdfs_built"
    /\ UNCHANGED <<tabVars, sampleVars, fit, multiVars>>

PdfInit ==
    /\ pc = "populate_pdfs"
    /\ fit \in Columns(Unclipped, CellFits)
    /\ Shipped(fit)
    /\ PdfBlank /\ TabIdle /\ SampleIdle /\ MultiIdle

PdfNext == populate_pdfs

SpecPdf == PdfInit /\ [][PdfNext]_vars

\* the normalisation over every non-negative density, those without support
\* beyond the first grid point included
PdfAnyInit ==
    /\ pc = "populate_pdfs"
    /\ fit \in Columns(Unclipped \cup DegenerateFits, CellFits \cup DegenerateFits)
    /\ PdfBlank /\ TabIdle /\ SampleIdle /\ MultiIdle

SpecPdfAny == PdfAnyInit /\ [][PdfNext]_vars

Zeros(n) == [k \in 1..n |-> R(0)]
AllFinite(s) == \A k \in 1..Len(s) : IsFinite(s[k])
NonDecreasing(s) == \A k \in 1..(Len(s) - 1) : RLe(s[k], s[k + 1])

C8_CdfShape ==
    pc = "pdfs_built" =>
        /\ \A j \in 1..numlogP, i \in 1..numM1 :
              /\ NonDecreasing(cumqdist[j][i]) /\ NonDecreasing(cumedist[j][i])
              /\ cumqdist[j][i][1] = R(0) /\ cumedist[j][i][1] = R(0)
              /\ RLe(R(0), cumqdist[j][i][numq]) /\ RLe(cumqdist[j][i][numq], R(1))
              /\ RLe(R(0), cumedist[j][i][nume]) /\ RLe(cumedist[j][i][nume], R(1))
        /\ \A i \in 1..numM1 :
              /\ NonDecreasing(cumPbindist[i])
              /\ RMax(cumPbindist[i]) = BinaryFraction(InnerBinaryDensity(flogP_sq, probbin, i))

\* a grid with a clipped last period, a binary fraction that is not 1 and an
\* eccentricity density cut off at e_max
C8_Witness ==
    /\ pc = "pdfs_built"
    /\ \E i \in 1..numM1 :
          /\ probbin[numlogP][i] = R(0)
          /\ RMax(cumPbindist[i]) # R(1)
          /\ cumPbindist[i][numlogP] = cumPbindist[i][numlogP - 1]
          /\ \E j \in 1..numlogP : fit[j][i].fe[nume] = R(0) /\ cumedist[j][i][nume] = R(1)
(***************************************************************************)
(* MultiDimSample.initial_sample(M1min, size), lines 559-667.              *)
(*                                                                         *)
(* The primary mass vector keeps the rule of line 583 (np.linspace plus    *)
(* the 0.08 floor) with fewer points and a shorter range.  The mass        *)
(* function of lines 585-591 is a positive, strictly decreasing power law; *)
(* its tabulated values are an input of the model.                         *)
(***************************************************************************)
numM1Full == 4
FloorMass == <<2, 25>>        \* the 0.08 of lines 583, 619 and 643
LowMassLimit == <<4, 5>>         \* the 0.8 of lines 618, 619 and 642
sec_in_day == 86400

M1 == Tup([k \in 1..numM1Full |->
              RAdd(Linspace(R(0), <<3, 2>>, numM1Full)[k], FloorMass)])

MassFunctions ==
    {Tup([k \in 1..numM1Full |-> R(numM1Full + 1 - k)]),
     Tup([k \in 1..numM1Full |-> <<1, k>>])}

\* requested minimum masses: below the floor, the floor, between grid points,
\* on a grid point of M1v, between the two points of M1v, beyond the grid
M1minChoices == {<<1, 20>>, FloorMass, <<1, 2>>, LowMassLimit, R(1), R(2)}

\* np.interp(xq, xp, fp) for non-decreasing xp: clamped at both ends; inside,
\* j is the last index with xp[j] <= xq, and fp[j] is returned as it is when j
\* is the last index or xp[j] = xq
LastLe(xq, xp) ==
    CHOOSE j \in 1..Len(xp) :
        /\ RLe(xp[j], xq)
        /\ \A k \in (j + 1)..Len(xp) : ~RLe(xp[k], xq)

Interp(xq, xp, fp) ==
    IF RLt(xq, xp[1]) THEN fp[1]
    ELSE IF RLt(xp[Len(xp)], xq) THEN fp[Len(xp)]
    ELSE LET j == LastLe(xq, xp)
         IN  IF j = Len(xp) \/ xp[j] = xq THEN fp[j]
             ELSE RAdd(fp[j],
                       RMul(RDiv(RSub(fp[j + 1], fp[j]), RSub(xp[j + 1], xp[j])),
                            RSub(xq, xp[j])))

\* np.where(abs(v - grid) == min(abs(v - grid)))[0], lines 611-612, 631-632:
\* every index at the least distance, in increasing order
RECURSIVE Ascending(_)
Ascending(S) ==
    IF S = {} THEN <<>>
    ELSE LET lo == CHOOSE a \in S : \A b \in S : a <= b
         IN  <<lo>> \o Ascending(S \ {lo})

Distances(v, grid) == Tup([k \in 1..Len(grid) |-> RAbs(RSub(v, grid[k]))])

Nearest(v, grid) ==
    Ascending({k \in 1..Len(grid) : Distances(v, grid)[k] = RMin(Distances(v, grid))})

\* line 603: the argument of the inverse lookup
PrimaryDrawNoRescale(c0, u) == u
PrimaryDraw(c0, u) == RAdd(c0, RMul(RSub(R(1), c0), u))

\* cumPbindist[:, indM1].flatten(), line 616: row-major over (period, index)
\* (the model keeps the column of mass i as cumPbindist[i])
RECURSIVE Flatten(_, _, _)
Flatten(cdf, ind, j) ==
    IF j > numlogP THEN <<>>
    ELSE Tup([k \in 1..Len(ind) |-> cdf[ind[k]][j]]) \o Flatten(cdf, ind, j + 1)

\* line 619: np.interp(np.log10(myM1), np.log10([0.08, 0.8]), [0.0, 1.0]).
\* The logarithm of a mass strictly between the two limits is only known to
\* give a factor strictly between 0 and 1.
LowMassFactors(m) ==
    IF RLe(m, FloorMass) THEN {R(0)}
    ELSE IF RLe(LowMassLimit, m) THEN {R(1)}
    ELSE {<<1, 4>>, <<3, 4>>}

Scale(s, c) == Tup([k \in 1..Len(s) |-> Times(s[k], c)])

\* lines 642-652: the truncation of the mass-ratio CDF at q_min = 0.08 / myM1
q_min_of(m) == RDiv(FloorMass, m)

Truncate(cdf, m) ==
    LET cum_qmin == Interp(q_min_of(m), qv, cdf)
        shifted == Tup([k \in 1..Len(cdf) |-> RSub(cdf[k], cum_qmin)])
        top == RMax(shifted)
    IN  Tup([k \in 1..Len(cdf) |->
                IF RLe(qv[k], q_min_of(m)) THEN R(0) ELSE Divide(shifted[k], top)])

\* lines 640-652: how the array that line 652 assigns into was obtained from
\* cumqdist.  An array shares the memory of the grid only if every step that
\* led to it gives a view or works in place; indexing with index arrays,
\* flatten() and the results of - and / are new arrays.
ViewSteps == {"basic index", "reshape", "in place"}
SharesMemory(steps) == \A k \in 1..Len(steps) : steps[k] \in ViewSteps
TruncationInPlace == <<"basic index", "in place", "in place">>
TruncationSteps == <<"index arrays", "flatten", "subtract", "divide">>

\* the grid after an assignment into the slice [:, j, i] of an array that
\* does or does not share its memory
AssignedInto(grid, j, i, slice, steps) ==
    IF SharesMemory(steps) THEN [grid EXCEPT ![j][i] = slice] ELSE grid

\* line 660: the value 10**v * sec_in_day, kept as its exponent and factor
Seconds(v) == [exp10 |-> v, times |-> sec_in_day]

\* how the call has ended
Raised(e) == [ret |-> "raise", error |-> e]
\* the fit tables the sampling runs are checked with: the fits 1..3 in
\* rotation over the masses, every second column clipped at the longest period
SampleFits ==
    {[j \in 1..numlogP |->
         [i \in 1..numM1 |->
             CellFit(IF j = numlogP /\ (i + s) % 2 = 0 THEN 4 ELSE ((i + s) % 3) + 1)]] :
       s \in 0..2}

\* lines 559-578: the call is entered and the four lists are created; no
\* statement of the function binds total_mass before the loop
InitialSampleInit ==
    /\ pc = "populate_pdfs"
    /\ fn = "initial_sample" /\ model = Idle /\ kstar1_final = 0
    /\ size \in 0..MaxSize
    /\ result = [ret |-> Idle] /\ primary_mass = <<>> /\ binary_choose = <<>>
    /\ M1min \in M1minChoices
    /\ fM1 \in MassFunctions
    /\ cumfM1 = None /\ cumf_M1min = None
    /\ trial = 0 /\ TrialBlank
    /\ primary_mass_list = <<>> /\ secondary_mass_list = <<>>
    /\ porb_list = <<>> /\ ecc_list = <<>>
    /\ total_mass = None
    /\ trials = <<>>
    /\ fit \in SampleFits
    /\ Shipped(fit)
    /\ PdfBlank /\ TabIdle

\* lines 582-598: the primary mass CDF and its value at M1min
primary_mass_function ==
    /\ pc = "pdfs_built" /\ fn = "initial_sample"
    /\ cumfM1' = NormalizeByMax(CumOffset(fM1))
    /\ cumf_M1min' = Interp(M1min, M1, cumfM1')
    /\ pc' = "loop"
    /\ UNCHANGED <<tabVars, sampleVars, pdfVars, M1min, fM1, trial, trialVars, outVars>>

\* lines 600-612: one more trial; the primary mass and its index in M1v
draw_primary ==
    /\ pc = "loop" /\ trial < size
    /\ \E u \in Uniform01 :
          myM1' = Interp(PrimaryDraw(cumf_M1min, u), cumfM1, M1)
    /\ indM1' = Nearest(myM1', M1v)
    /\ pc' = "period"
    /\ UNCHANGED <<tabVars, sampleVars, pdfVars, massVars, trial, outVars,
                   mycumPbindist, mybinfrac, myrand, mylogP, indlogP,
                   mye, mycumqdist, myq>>

\* lines 615-626: the period CDF of the mass, rescaled below 0.8 Msun, the
\* binary fraction and the draw that decides between a binary and a single
period_distribution ==
    /\ pc = "period"
    /\ \E c \in LowMassFactors(myM1) :
          mycumPbindist' = IF RLe(myM1, LowMassLimit)
                             THEN Scale(Flatten(cumPbindist, indM1, 1), c)
                             ELSE Flatten(cumPbindist, indM1, 1)
    /\ mybinfrac' = RMax(mycumPbindist')
    /\ myrand' \in Uniform01
    /\ pc' = "branch"
    /\ UNCHANGED <<tabVars, sampleVars, pdfVars, massVars, trial, outVars,
                   myM1, indM1, mylogP, indlogP, mye, mycumqdist, myq>>
\* total_mass += m, lines 663-666: reading the unbound local raises
Accumulate(t, m) == IF t = None THEN None ELSE RAdd(t, m)

\* lines 628-664: a binary.  An index array with more than one entry makes
\* the flattened slice longer than its grid, and np.interp raises.
draw_binary ==
    /\ pc = "branch"
    /\ RLt(myrand, mybinfrac)
    /\ IF Len(mycumPbindist) # Len(logPv)
         THEN /\ result' = Raised("ValueError")
              /\ pc' = "raised"
              /\ UNCHANGED <<mylogP, indlogP, mye, mycumqdist, myq, outVars, trial, cumqdist>>
         ELSE /\ mylogP' = Interp(myrand, mycumPbindist, logPv)
              /\ indlogP' = Nearest(mylogP', logPv)
              /\ IF Len(indlogP') # 1
                   THEN /\ result' = Raised("ValueError")
                        /\ pc' = "raised"
                        /\ UNCHANGED <<mye, mycumqdist, myq, outVars, trial, cumqdist>>
                   ELSE /\ \E u \in Uniform01 :
                              mye' = Interp(u, cumedist[indlogP'[1]][indM1[1]], ev)
                        /\ mycumqdist' =
                              IF RLt(myM1, LowMassLimit)
                                THEN Truncate(cumqdist[indlogP'[1]][indM1[1]], myM1)
                                ELSE cumqdist[indlogP'[1]][indM1[1]]
                        /\ cumqdist' =
                              IF RLt(myM1, LowMassLimit)
                                THEN AssignedInto(cumqdist, indlogP'[1], indM1[1],
                                                  mycumqdist', TruncationSteps)
                                ELSE cumqdist
                        /\ \E u \in Uniform01 : myq' = Interp(u, mycumqdist', qv)
                        /\ primary_mass_list' = Append(primary_mass_list, myM1)
                        /\ secondary_mass_list' =
                              Append(secondary_mass_list, RMul(myq', myM1))
                        /\ porb_list' =
                              Append(porb_list, Seconds(logPv))
                        /\ ecc_list' = Append(ecc_list, mye')
                        /\ trials' = Append(trials, [M1 |-> myM1, M2 |-> RMul(myq', myM1)])
                        /\ total_mass' =
                              Accumulate(Accumulate(total_mass, myM1), RMul(myq', myM1))
                        /\ IF total_mass = None
                             THEN /\ result' = Raised("UnboundLocalError")
                                  /\ pc' = "raised"
                                  /\ trial' = trial
                             ELSE /\ result' = result
                                  /\ pc' = "loop"
                                  /\ trial' = trial + 1
    /\ UNCHANGED <<tabVars, fit, flogP_sq, probbin, cumedist, cumPbindist,
                   massVars, fn, model, kstar1_final, size,
                   primary_mass, binary_choose,
                   myM1, indM1, mycumPbindist, mybinfrac, myrand>>

\* lines 665-666: a single star adds its mass to total_mass and to no list
draw_single ==
    /\ pc = "branch"
    /\ ~RLt(myrand, mybinfrac)
    /\ trials' = Append(trials, [M1 |-> myM1, M2 |-> R(0)])
    /\ total_mass' = Accumulate(total_mass, myM1)
    /\ IF total_mass = None
         THEN /\ result' = Raised("UnboundLocalError")
              /\ pc' = "raised"
              /\ trial' = trial
         ELSE /\ result' = result
              /\ pc' = "loop"
              /\ trial' = trial + 1
    /\ UNCHANGED <<tabVars, pdfVars, massVars, trialVars, fn, model, kstar1_final,
                   size, primary_mass, binary_choose,
                   primary_mass_list, secondary_mass_list, porb_list, ecc_list>>

\* line 667: the tuple that is returned names total_mass
return_sample ==
    /\ pc = "loop" /\ trial >= size
    /\ IF total_mass = None
         THEN result' = Raised("UnboundLocalError") /\ pc' = "raised"
         ELSE /\ result' = [ret |-> "value",
                            primary_mass |-> primary_mass_list,
                            secondary_mass |-> secondary_mass_list,
                            porb |-> porb_list, ecc |-> ecc_list,
                            total_mass |-> total_mass]
              /\ pc' = "returned"
    /\ UNCHANGED <<tabVars, pdfVars, multiVars, fn, model, kstar1_final, size,
                   primary_mass, binary_choose>>

Init == InitialSampleInit

Next ==
    \/ populate_pdfs
    \/ primary_mass_function
    \/ draw_primary
    \/ period_distribution
    \/ draw_binary
    \/ draw_single
    \/ return_sample

Spec == Init /\ [][Next]_vars
(***************************************************************************)
(* Properties of initial_sample                                            *)
(***************************************************************************)
PrimariesOf(ts) == Tup([k \in 1..Len(ts) |-> ts[k].M1])

RECURSIVE MassOf(_)
MassOf(ts) ==
    IF ts = <<>> THEN R(0)
    ELSE RAdd(MassOf(SubSeq(ts, 1, Len(ts) - 1)),
              RAdd(ts[Len(ts)].M1, ts[Len(ts)].M2))

InLoop == fn = "initial_sample" /\ pc \in {"loop", "period", "branch", "returned"}

\* C2: the list of primary masses holds the primary mass of every trial that
\* has been run, single-star trials as well as binary trials, so that the
\* returned sequence has one entry per trial.
C2_PrimaryOfEveryTrial ==
    fn = "initial_sample" =>
        /\ primary_mass_list = PrimariesOf(trials)
        /\ pc = "returned" => Len(result.primary_mass) = size

\* C3: once the accumulators are set up, total_mass is the sum of the primary
\* masses of all trials plus the secondary masses of the binary trials; it is
\* 0 before the first trial.
C3_TotalMassIsSum ==
    InLoop => total_mass = MassOf(trials)

\* C4: a mass ratio drawn for a primary below 0.8 Msun is never below
\* q_min = 0.08 / myM1.
C4_RatioAboveFloor ==
    (fn = "initial_sample" /\ myq # None /\ RLt(myM1, LowMassLimit))
        => RLe(q_min_of(myM1), myq)

\* C6: a call with M1min below 0.08 Msun draws no primary mass and returns
\* no sample.
C6_BelowFloorFails ==
    (fn = "initial_sample" /\ RLt(M1min, FloorMass))
        => (myM1 = None /\ pc # "returned")

\* C10: for M1min inside the tabulated mass range, every drawn primary mass
\* is at least M1min.
InsideDomain(m) == RLe(M1[1], m) /\ RLe(m, M1[numM1Full])

C10_PrimaryAboveMinimum ==
    (fn = "initial_sample" /\ myM1 # None /\ InsideDomain(M1min))
        => RLe(M1min, myM1)

\* a draw from a CDF cut at an interior minimum mass: the part below M1min
\* has weight, and the draw is not the smallest one
C10_Witness ==
    /\ fn = "initial_sample" /\ myM1 # None
    /\ InsideDomain(M1min) /\ RLt(M1[1], M1min)
    /\ RLt(R(0), cumf_M1min)
    /\ RLt(M1min, myM1) /\ RLt(myM1, M1[numM1Full])
\* the trial whose branch was taken last
LastTrial == trials[Len(trials)]
BranchTaken ==
    fn = "initial_sample" /\ pc \in {"loop", "raised", "returned"} /\ Len(trials) > 0

\* C11: the binary fraction of a trial is the maximum of its period CDF and
\* the trial is a binary exactly when the draw is strictly below it; with an
\* all-zero period CDF the fraction is 0 and the trial completes as a single
\* star, without a fault, recording its primary mass only.
C11_ZeroCdfIsSingle ==
    /\ (fn = "initial_sample" /\ mybinfrac # None) => mybinfrac = RMax(mycumPbindist)
    /\ BranchTaken => (LastTrial.M2 # R(0) <=> RLt(myrand, mybinfrac))
    /\ (BranchTaken /\ \A k \in 1..Len(mycumPbindist) : mycumPbindist[k] = R(0))
          => /\ mybinfrac = R(0)
             /\ LastTrial.M2 = R(0)
             /\ secondary_mass_list = <<>> /\ porb_list = <<>> /\ ecc_list = <<>>
             /\ pc # "raised"
\* a binary trial has made its four appends
BinaryRecorded == BranchTaken /\ LastTrial.M2 # R(0)

\* C12: the period appended by a binary trial is the single value
\* 10^mylogP * 86400 of the log-period selected in that trial, and the
\* appended secondary mass is myq * myM1.
C12_PeriodOfTheTrial ==
    BinaryRecorded =>
        /\ porb_list[Len(porb_list)] = Seconds(mylogP)
        /\ secondary_mass_list[Len(secondary_mass_list)] = RMul(myq, myM1)
\* the lowest index among the grid points closest to v
FirstNearest(v, grid) ==
    CHOOSE k \in 1..Len(grid) :
        /\ \A a \in 1..Len(grid) : RLe(Distances(v, grid)[k], Distances(v, grid)[a])
        /\ \A a \in 1..(k - 1) : Distances(v, grid)[a] # Distances(v, grid)[k]

\* C13: the nearest-index lookups of the mass and of the period give exactly
\* one index, the closest grid point and on a tie the first of the two; a
\* mass outside the grid range gives the first or the last index.
C13_NearestIsOneIndex ==
    fn = "initial_sample" =>
        /\ indM1 # None =>
              /\ indM1 = <<FirstNearest(myM1, M1v)>>
              /\ RLe(myM1, M1v[1]) => indM1 = <<1>>
              /\ RLe(M1v[numM1], myM1) => indM1 = <<numM1>>
        /\ indlogP # None => indlogP = <<FirstNearest(mylogP, logPv)>>
(***************************************************************************)
(* Properties of sample_primary                                            *)
(***************************************************************************)
Supported == {"kroupa93", "salpeter55"}
PrimaryEnded == pc = "returned" /\ fn = "sample_primary"

\* C14: for each supported model sample_primary draws size*500 values when
\* kstar1_final > 14, size*50 when 12 < kstar1_final <= 14 and exactly size
\* when kstar1_final <= 12.
C14_OversamplingFactor ==
    (PrimaryEnded /\ model \in Supported) =>
        /\ result.ret = "value"
        /\ result.drawn = (IF kstar1_final > 14 THEN size * 500
                           ELSE IF kstar1_final > 12 THEN size * 50
                           ELSE size)
RECURSIVE CountOf(_)
CountOf(a) == IF a = <<>> THEN 0 ELSE a[1].count + CountOf(Tail(a))

\* C15: every mass sample_primary returns is above 15 Msun when
\* kstar1_final > 13 and above 8 Msun when 12 < kstar1_final <= 13; for
\* kstar1_final <= 12 the draws are returned unfiltered; total_sampled_mass is
\* the sum of all draws before the filter, so at least the sum of the
\* returned masses.
C15_ReturnedAboveFloor ==
    (PrimaryEnded /\ model \in Supported /\ result.ret = "value") =>
        /\ \A k \in 1..Len(result.a_0) :
              /\ kstar1_final > 13 => result.a_0[k].mass > 15
              /\ (kstar1_final > 12 /\ kstar1_final <= 13) => result.a_0[k].mass > 8
        /\ kstar1_final <= 12 => result.a_0 = result.sampled
        /\ CountOf(result.sampled) = result.drawn
        /\ result.total_sampled_mass = SumOf(result.sampled)
        /\ result.total_sampled_mass >= SumOf(result.a_0)

\* a filtered return: a draw exactly at the floor of 8 Msun is dropped, one
\* above it is kept, and the total counts both
C15_Witness ==
    /\ PrimaryEnded /\ model = "kroupa93" /\ result.ret = "value"
    /\ kstar1_final = 13
    /\ \E k \in 1..Len(result.sampled) : result.sampled[k].mass = 8
    /\ Len(result.a_0) = 1 /\ result.a_0[1].mass = 9
    /\ result.total_sampled_mass > SumOf(result.a_0)
(***************************************************************************)
(* The grids during the trials                                             *)
(***************************************************************************)
\* C16: the three grids are built once, before the trial loop, and no step
\* of a trial changes them or builds them again: the rescaled period CDF and
\* the truncated mass-ratio CDF are arrays of the trial.
C16_GridsReadOnly ==
    [][(fn = "initial_sample" /\ pc # "populate_pdfs")
          => /\ pc' # "populate_pdfs"
             /\ cumqdist' = cumqdist
             /\ cumedist' = cumedist
             /\ cumPbindist' = cumPbindist]_vars

\* a low-mass binary trial has rescaled its period CDF and truncated its
\* mass-ratio CDF, and the grid slices it took them from are as built
C16_Witness ==
    /\ BinaryRecorded /\ RLt(myM1, LowMassLimit)
    /\ Len(indM1) = 1 /\ Len(indlogP) = 1
    /\ mycumqdist # cumqdist[indlogP[1]][indM1[1]]
    /\ mycumPbindist # cumPbindist[indM1[1]]
    /\ cumqdist[indlogP[1]][indM1[1]] =
          NormalizeByMax(CumOffset(fit[indlogP[1]][indM1[1]].fq))
=============================================================================
